---- MODULE Spec2Model ----
(***************************************************************************)
(* A model of src/cline_automation.py: the ClineAutomation HTTP client.    *)
(*                                                                         *)
(* The client is synchronous.  A method call builds a payload, hands it to *)
(* requests.post / requests.get and blocks; the library call either raises *)
(* or gives back a Response, on which the code calls raise_for_status()    *)
(* and json().  A call is modelled in two steps: the method issues its     *)
(* request (pc = "waiting"), then the library call completes with a reply  *)
(* chosen by the environment and the rest of the method body runs          *)
(* (pc = "idle").  The record of the last call is kept until the next call *)
(* starts.                                                                 *)
(*                                                                         *)
(* Python values and JSON texts are tagged records, so that None, False,   *)
(* 0, "", [] and {} are six different values, as they are in Python.       *)
(***************************************************************************)
EXTENDS Integers, Sequences, FiniteSets, TLC

VARIABLES
    ctor_arg,       \* the base_url argument given to ClineAutomation(...)
    base_url,       \* self.base_url
    requests_new,   \* TRUE: the installed requests is >= 2.27 (Response.json
                    \* raises requests.exceptions.JSONDecodeError); FALSE: an
                    \* older release (it raises a plain ValueError)
    pc,             \* "idle" | "waiting" (blocked inside requests.post/get)
    call,           \* the current or last call: [method, params]
    sent,           \* the HTTP requests issued by that call, in order
    reply,          \* what the library call gave back (NoReply while waiting)
    outcome,        \* "none" | "returned" | "raised"
    result,         \* the value returned to the caller
    raised,         \* the exception that reached the caller (NoExc if none)
    caught          \* the exception an except clause handled (NoExc if none)

vars == <<ctor_arg, base_url, requests_new, pc, call, sent, reply, outcome, result, raised, caught>>

----------------------------------------------------------------------------
(* Bounds of the model *)

MaxLine == 1        \* range positions use lines 0..MaxLine
MaxImages == 2      \* images lists have at most MaxImages elements

----------------------------------------------------------------------------
(* Python values *)

None == [t |-> "none"]
PyBool(b) == [t |-> "bool", v |-> b]
PyInt(n) == [t |-> "int", v |-> n]
PyStr(s) == [t |-> "str", v |-> s]
PyList(s) == [t |-> "list", v |-> s]
PyDict(d) == [t |-> "dict", v |-> d]

\* A parameter the caller did not pass: the def's default applies.
Omitted == [t |-> "omitted"]

\* Python truth value testing, as used by `if args:` and `if images:`.
Truthy(x) ==
    CASE x.t = "none" -> FALSE
      [] x.t = "bool" -> x.v
      [] x.t = "int" -> x.v # 0
      [] x.t = "str" -> x.v # ""
      [] x.t = "list" -> Len(x.v) # 0
      [] x.t = "dict" -> DOMAIN x.v # {}

----------------------------------------------------------------------------
(* JSON texts, and the json= encoding of requests / Response.json decoding *)

JNull == [t |-> "null"]
JBool(b) == [t |-> "boolean", v |-> b]
JNumber(n) == [t |-> "number", v |-> n]
JString(s) == [t |-> "string", v |-> s]
JArray(s) == [t |-> "array", v |-> s]
JObject(d) == [t |-> "object", v |-> d]

\* A body that is not JSON (an HTML error page, an empty body).
Malformed == [t |-> "malformed"]

RECURSIVE dumps(_)
dumps(x) ==
    CASE x.t = "none" -> JNull
      [] x.t = "bool" -> JBool(x.v)
      [] x.t = "int" -> JNumber(x.v)
      [] x.t = "str" -> JString(x.v)
      [] x.t = "list" -> JArray([i \in 1..Len(x.v) |-> dumps(x.v[i])])
      [] x.t = "dict" -> JObject([k \in DOMAIN x.v |-> dumps(x.v[k])])

RECURSIVE loads(_)
loads(j) ==
    CASE j.t = "null" -> None
      [] j.t = "boolean" -> PyBool(j.v)
      [] j.t = "number" -> PyInt(j.v)
      [] j.t = "string" -> PyStr(j.v)
      [] j.t = "array" -> PyList([i \in 1..Len(j.v) |-> loads(j.v[i])])
      [] j.t = "object" -> PyDict([k \in DOMAIN j.v |-> loads(j.v[k])])

----------------------------------------------------------------------------
(* The requests library, at the boundary the source calls it through.      *)
(* requests.post / requests.get either raise a RequestException            *)
(* (ConnectionError, Timeout) or give back the final Response.             *)

NoExc == [type |-> "none", msg |-> ""]
Exc(type, msg) == [type |-> type, msg |-> msg]

\* The classes derived from requests.exceptions.RequestException that occur
\* here.  "JSONDecodeError" is requests.exceptions.JSONDecodeError; the
\* builtin ValueError (and json.JSONDecodeError, its subclass) is not one.
IsRequestException(e) ==
    e.type \in {"ConnectionError", "Timeout", "HTTPError", "JSONDecodeError"}

\* str(e)
str(e) == e.msg

Raises(e) == [kind |-> "raise", exc |-> e]
Response(status, body) == [kind |-> "response", status |-> status, body |-> body]
NoReply == [kind |-> "none"]

\* Response.raise_for_status(): HTTPError for 400 <= status_code < 600,
\* nothing for any other status (a final 3xx response included).
raise_for_status(resp) ==
    IF 400 <= resp.status /\ resp.status < 500
    THEN Exc("HTTPError", "Client Error")
    ELSE IF 500 <= resp.status /\ resp.status < 600
         THEN Exc("HTTPError", "Server Error")
         ELSE NoExc

\* Response.json(): the decoded body, or the decoder's error.  requests
\* 2.27 and later wrap the error in requests.exceptions.JSONDecodeError;
\* earlier releases let the decoder's ValueError through.
json(resp) ==
    IF resp.body = Malformed
    THEN [exc |-> IF requests_new
                  THEN Exc("JSONDecodeError", "Expecting value")
                  ELSE Exc("ValueError", "Expecting value"),
          value |-> None]
    ELSE [exc |-> NoExc, value |-> loads(resp.body)]

----------------------------------------------------------------------------
(* ClineAutomation *)

DefaultBaseUrl == "http://localhost:3000"

\* __init__(self, base_url = "http://localhost:3000")
__init__(arg) == IF arg = Omitted THEN DefaultBaseUrl ELSE arg.v

\* try_block without its raise_for_status() line
try_block_unchecked(rep) ==
    IF rep.kind = "raise"
    THEN [exc |-> rep.exc, value |-> None]
    ELSE json(rep)

\* The body of the try: blocks of _make_request and get_available_commands:
\* the library call, raise_for_status(), json().  [exc, value]: the
\* exception the block ends with (NoExc if none) and the value it returns.
try_block(rep) ==
    IF rep.kind = "raise"
    THEN [exc |-> rep.exc, value |-> None]
    ELSE IF raise_for_status(rep) # NoExc
         THEN [exc |-> raise_for_status(rep), value |-> None]
         ELSE json(rep)

Returned(value, handled) ==
    [outcome |-> "returned", result |-> value, raised |-> NoExc, caught |-> handled]
Propagated(e) ==
    [outcome |-> "raised", result |-> None, raised |-> e, caught |-> NoExc]

\* get_available_commands_except with the fallback of _make_request
get_available_commands_except_dict(e) ==
    Returned(PyDict([success |-> PyBool(FALSE), error |-> PyStr(e.msg)]), e)

\* except requests.exceptions.RequestException as e:   (_make_request)
\*     return {"success": False, "error": str(e)}
make_request_except(e) ==
    Returned(PyDict([success |-> PyBool(FALSE), error |-> PyStr(str(e))]), e)

\* except requests.exceptions.RequestException as e:   (get_available_commands)
\*     return []
get_available_commands_except(e) ==
    Returned(PyList(<<>>), e)

\* make_request_end that accepts only an object as the server's answer
make_request_end_checked(rep) ==
    LET t == try_block(rep) IN
    IF t.exc = NoExc
    THEN IF t.value.t = "dict"
         THEN Returned(t.value, NoExc)
         ELSE Returned(PyDict([success |-> PyBool(FALSE), error |-> PyStr("bad response")]), NoExc)
    ELSE IF IsRequestException(t.exc)
         THEN Returned(PyDict([success |-> PyBool(FALSE), error |-> PyStr(t.exc.msg)]), t.exc)
         ELSE Propagated(t.exc)

\* How a call ends, given what its try: block did: its value is returned;
\* a RequestException goes to the except clause; any other exception
\* leaves the method.
make_request_end(rep) ==
    LET t == try_block(rep) IN
    IF t.exc = NoExc THEN Returned(t.value, NoExc)
    ELSE IF IsRequestException(t.exc) THEN make_request_except(t.exc)
    ELSE Propagated(t.exc)

get_available_commands_end(rep) ==
    LET t == try_block(rep) IN
    IF t.exc = NoExc THEN Returned(t.value, NoExc)
    ELSE IF IsRequestException(t.exc) THEN get_available_commands_except(t.exc)
    ELSE Propagated(t.exc)

\* payload that always carries the args key
payload_null_padded(command, args) ==
    PyDict([command |-> PyStr(command), args |-> args])

\* payload = {"command": command}; if args: payload["args"] = args
payload(command, args) ==
    IF Truthy(args)
    THEN PyDict([command |-> PyStr(command), args |-> args])
    ELSE PyDict([command |-> PyStr(command)])

Request(verb, url, body) == [verb |-> verb, url |-> url, body |-> body]
NoBody == [t |-> "nobody"]

\* A method starts and blocks in its library call.
Begin(method, params, request) ==
    /\ pc' = "waiting"
    /\ call' = [method |-> method, params |-> params]
    /\ sent' = <<request>>
    /\ reply' = NoReply
    /\ outcome' = "none"
    /\ result' = None
    /\ raised' = NoExc
    /\ caught' = NoExc
    /\ UNCHANGED <<ctor_arg, base_url, requests_new>>

\* _make_request(command, args) up to requests.post(url, json=payload)
_make_request(method, params, command, args) ==
    Begin(method, params, Request("POST", base_url, dumps(payload(command, args))))

----------------------------------------------------------------------------
(* The values callers and the server are drawn from *)

CtorArgs == {Omitted, PyStr("http://127.0.0.1:8080")}

Commands == {"getTaskStatus", "custom"}

\* args of a direct _make_request call: None (no args) and JSON-like values,
\* falsy ones included
ArgValues ==
    {None, PyDict(<<>>), PyList(<<>>), PyBool(FALSE), PyInt(0), PyStr(""),
     PyBool(TRUE), PyInt(1), PyStr("x"),
     PyDict([k |-> PyStr("v")]), PyList(<<PyInt(1)>>)}

Positions ==
    {PyDict([line |-> PyInt(l), character |-> PyInt(c)]) : l \in 0..MaxLine, c \in {0, 5}}

ButtonIds == {PyStr(""), PyStr("btn-1")}
Texts == {PyStr(""), PyStr("hello")}
IsNewTaskArgs == {Omitted, PyBool(FALSE), PyBool(TRUE)}
Tasks == {PyStr(""), PyStr("t")}
ImageNames == {PyStr("img1"), PyStr("img2")}
ImagesArgs ==
    {Omitted} \cup
    {PyList(s) : s \in UNION {[1..n -> ImageNames] : n \in 0..MaxImages}}

Statuses == {200, 204, 300, 404, 500}

JsonBodies ==
    {JNull, JBool(TRUE), JNumber(0), JString("ok"), JArray(<<>>),
     JArray(<<JObject([name |-> JString("sendText")])>>),
     JObject([success |-> JBool(TRUE)]),
     JObject([success |-> JBool(FALSE), error |-> JString("busy")])}

Bodies == JsonBodies \cup {Malformed}

Replies ==
    {Raises(Exc("ConnectionError", "Connection refused")),
     Raises(Exc("Timeout", "Read timed out"))}
    \cup {Response(st, b) : st \in Statuses, b \in Bodies}

NoParams == [none |-> TRUE]

----------------------------------------------------------------------------
(* The methods: each issues its request and blocks *)

\* a direct call of _make_request(command, args): the spec's execute
execute ==
    \E command \in Commands, args \in ArgValues :
        /\ pc = "idle"
        /\ _make_request("_make_request", [command |-> PyStr(command), args |-> args],
                         command, args)

\* get_available_commands with the slash of its path missing
get_available_commands_no_slash ==
    /\ pc = "idle"
    /\ Begin("get_available_commands", NoParams,
             Request("GET", base_url \o "commands", NoBody))

get_available_commands ==
    /\ pc = "idle"
    /\ Begin("get_available_commands", NoParams,
             Request("GET", base_url \o "/commands", NoBody))

open_new_tab ==
    /\ pc = "idle"
    /\ _make_request("open_new_tab", NoParams, "openNewTab", None)
click_plus_button ==
    /\ pc = "idle"
    /\ _make_request("click_plus_button", NoParams, "clickPlusButton", None)
click_mcp_button ==
    /\ pc = "idle"
    /\ _make_request("click_mcp_button", NoParams, "clickMCPButton", None)
click_settings_button ==
    /\ pc = "idle"
    /\ _make_request("click_settings_button", NoParams, "clickSettingsButton", None)
click_history_button ==
    /\ pc = "idle"
    /\ _make_request("click_history_button", NoParams, "clickHistoryButton", None)
click_account_button ==
    /\ pc = "idle"
    /\ _make_request("click_account_button", NoParams, "clickAccountButton", None)
add_terminal_output ==
    /\ pc = "idle"
    /\ _make_request("add_terminal_output", NoParams, "addTerminalOutput", None)
switch_to_plan_mode ==
    /\ pc = "idle"
    /\ _make_request("switch_to_plan_mode", NoParams, "switchToPlanMode", None)
switch_to_act_mode ==
    /\ pc = "idle"
    /\ _make_request("switch_to_act_mode", NoParams, "switchToActMode", None)
get_task_status ==
    /\ pc = "idle"
    /\ _make_request("get_task_status", NoParams, "getTaskStatus", None)

\* range_args that puts the earlier position first
range_args_ordered(range_start, range_end) ==
    IF range_start.v.line.v > range_end.v.line.v
    THEN PyDict([range |-> PyDict([start |-> range_end, end |-> range_start])])
    ELSE PyDict([range |-> PyDict([start |-> range_start, end |-> range_end])])

\* args = {"range": {"start": range_start, "end": range_end}}
range_args(range_start, range_end) ==
    PyDict([range |-> PyDict([start |-> range_start, end |-> range_end])])

add_to_chat ==
    \E range_start \in Positions, range_end \in Positions :
        /\ pc = "idle"
        /\ _make_request("add_to_chat", [range_start |-> range_start, range_end |-> range_end],
                         "addToChat", range_args(range_start, range_end))

fix_with_cline ==
    \E range_start \in Positions, range_end \in Positions :
        /\ pc = "idle"
        /\ _make_request("fix_with_cline", [range_start |-> range_start, range_end |-> range_end],
                         "fixWithCline", range_args(range_start, range_end))

\* args = {"buttonId": button_id}
click_select_button_args(button_id) == PyDict([buttonId |-> button_id])

click_select_button ==
    \E button_id \in ButtonIds :
        /\ pc = "idle"
        /\ _make_request("click_select_button", [button_id |-> button_id],
                         "clickSelectButton", click_select_button_args(button_id))

\* def send_text(self, text, is_new_task = False):
\*     args = {"text": text, "isNewTask": is_new_task}
send_text_args(text, given) ==
    LET is_new_task == IF given = Omitted THEN PyBool(FALSE) ELSE given
    IN  PyDict([text |-> text, isNewTask |-> is_new_task])

send_text ==
    \E text \in Texts, given \in IsNewTaskArgs :
        /\ pc = "idle"
        /\ _make_request("send_text", [text |-> text, is_new_task |-> given],
                         "sendText", send_text_args(text, given))

\* start_new_task_args with args.extend(images) for args.append(images)
start_new_task_args_extend(task, given) ==
    LET images == IF given = Omitted THEN None ELSE given
    IN  IF Truthy(images) THEN PyList(<<task>> \o images.v) ELSE PyList(<<task>>)

\* def start_new_task(self, task, images = None):
\*     args = [task]; if images: args.append(images)
start_new_task_args(task, given) ==
    LET images == IF given = Omitted THEN None ELSE given
    IN  IF Truthy(images) THEN PyList(<<task, images>>) ELSE PyList(<<task>>)

start_new_task ==
    \E task \in Tasks, given \in ImagesArgs :
        /\ pc = "idle"
        /\ _make_request("start_new_task", [task |-> task, images |-> given],
                         "startNewTask", start_new_task_args(task, given))

----------------------------------------------------------------------------
(* The library call completes and the rest of the method body runs *)

End(rep, e) ==
    /\ pc' = "idle"
    /\ reply' = rep
    /\ outcome' = e.outcome
    /\ result' = e.result
    /\ raised' = e.raised
    /\ caught' = e.caught
    /\ UNCHANGED <<ctor_arg, base_url, requests_new, call, sent>>

\* requests.post returns or raises; lines 20-25
make_request_completes ==
    /\ pc = "waiting"
    /\ call.method # "get_available_commands"
    /\ \E rep \in Replies : End(rep, make_request_end(rep))

\* requests.get returns or raises; lines 30-35
get_available_commands_completes ==
    /\ pc = "waiting"
    /\ call.method = "get_available_commands"
    /\ \E rep \in Replies : End(rep, get_available_commands_end(rep))

----------------------------------------------------------------------------

NoCall == [method |-> "none", params |-> NoParams]

Init ==
    /\ ctor_arg \in CtorArgs
    /\ base_url = __init__(ctor_arg)
    /\ requests_new \in BOOLEAN
    /\ pc = "idle"
    /\ call = NoCall
    /\ sent = <<>>
    /\ reply = NoReply
    /\ outcome = "none"
    /\ result = None
    /\ raised = NoExc
    /\ caught = NoExc

Next ==
    \/ execute
    \/ get_available_commands
    \/ open_new_tab
    \/ click_plus_button
    \/ click_mcp_button
    \/ click_settings_button
    \/ click_history_button
    \/ click_account_button
    \/ add_to_chat
    \/ add_terminal_output
    \/ fix_with_cline
    \/ switch_to_plan_mode
    \/ switch_to_act_mode
    \/ click_select_button
    \/ get_task_status
    \/ send_text
    \/ start_new_task
    \/ make_request_completes
    \/ get_available_commands_completes

Spec == Init /\ [][Next]_vars

----------------------------------------------------------------------------
(* Vocabulary of the properties *)

Done == pc = "idle" /\ call.method # "none"
IsGet == call.method = "get_available_commands"
IsPost == call.method \notin {"none", "get_available_commands"}

NetworkError(rep) == rep.kind = "raise" /\ rep.exc.type = "ConnectionError"
TimedOut(rep) == rep.kind = "raise" /\ rep.exc.type = "Timeout"
Status2xx(rep) == rep.kind = "response" /\ 200 <= rep.status /\ rep.status < 300
StatusNon2xx(rep) == rep.kind = "response" /\ ~(200 <= rep.status /\ rep.status < 300)
Status4xx5xx(rep) == rep.kind = "response" /\ 400 <= rep.status /\ rep.status < 600

\* {"success": false, "error": <non-empty string>}
IsFailureObject(x) ==
    /\ x.t = "dict"
    /\ DOMAIN x.v = {"success", "error"}
    /\ x.v.success = PyBool(FALSE)
    /\ x.v.error.t = "str"
    /\ x.v.error.v # ""

\* The call returned the failure object whose error is the text of the
\* exception that ended the request, and not the body of the response.
ReturnedFailureObject ==
    /\ outcome = "returned"
    /\ raised = NoExc
    /\ IsFailureObject(result)
    /\ caught # NoExc
    /\ result.v.error.v = caught.msg
    /\ reply.kind = "raise" => caught = reply.exc
    /\ reply.kind = "response" /\ reply.body # Malformed => result # loads(reply.body)

ReturnedEmptySequence ==
    /\ outcome = "returned"
    /\ raised = NoExc
    /\ result = PyList(<<>>)

JCommand(name) == JObject([command |-> JString(name)])
JCommandArgs(name, args) == JObject([command |-> JString(name), args |-> args])

OnePost(body) ==
    /\ Len(sent) = 1
    /\ sent[1].verb = "POST"
    /\ sent[1].body = body

----------------------------------------------------------------------------
(* C1 *)

----------------------------------------------------------------------------
(* C2 *)

----------------------------------------------------------------------------
(* C3 *)

\* C3: the body of execute(command, args) is exactly {command} when no args
\* was supplied and {command, args} with the value unchanged for every
\* supplied value, the falsy ones ({}, [], false, 0, "") included.
C3_ArgsIffSupplied ==
    call.method = "_make_request" =>
        OnePost(IF call.params.args = None
                THEN JCommand(call.params.command.v)
                ELSE JCommandArgs(call.params.command.v, dumps(call.params.args)))

----------------------------------------------------------------------------
(* C4 *)

\* the catalog's no-argument methods and their command strings
NoArgCatalog ==
    [open_new_tab |-> "openNewTab",
     click_plus_button |-> "clickPlusButton",
     click_mcp_button |-> "clickMCPButton",
     click_settings_button |-> "clickSettingsButton",
     click_history_button |-> "clickHistoryButton",
     click_account_button |-> "clickAccountButton",
     add_terminal_output |-> "addTerminalOutput",
     switch_to_plan_mode |-> "switchToPlanMode",
     switch_to_act_mode |-> "switchToActMode",
     get_task_status |-> "getTaskStatus"]

\* C4: a call of one of the ten no-argument methods issues exactly one
\* POST, whose body is {"command": <its catalog string>} with no args key.
C4_NoArgMethods ==
    call.method \in DOMAIN NoArgCatalog => OnePost(JCommand(NoArgCatalog[call.method]))

\* clickMCPButton was called and has returned
C4_Witness ==
    /\ Done
    /\ call.method = "click_mcp_button"
    /\ outcome = "returned"
    /\ Len(sent) = 1

----------------------------------------------------------------------------
(* C5 *)

JRange(start, end) == JObject([range |-> JObject([start |-> start, end |-> end])])

\* C5: addToChat and fixWithCline send args {range: {start, end}} for every
\* start and end, clickSelectButton sends {buttonId: id}, and sendText
\* sends {text, isNewTask} for every text, isNewTask false when omitted.
C5_ObjectArgs ==
    /\ call.method = "add_to_chat" =>
        OnePost(JCommandArgs("addToChat",
                JRange(dumps(call.params.range_start), dumps(call.params.range_end))))
    /\ call.method = "fix_with_cline" =>
        OnePost(JCommandArgs("fixWithCline",
                JRange(dumps(call.params.range_start), dumps(call.params.range_end))))
    /\ call.method = "click_select_button" =>
        OnePost(JCommandArgs("clickSelectButton",
                JObject([buttonId |-> JString(call.params.button_id.v)])))
    /\ call.method = "send_text" =>
        OnePost(JCommandArgs("sendText",
                JObject([text |-> JString(call.params.text.v),
                         isNewTask |-> JBool(IF call.params.is_new_task = Omitted
                                             THEN FALSE
                                             ELSE call.params.is_new_task.v)])))

\* sendText("") without isNewTask has issued its request
C5_Witness ==
    /\ call.method = "send_text"
    /\ call.params.text = PyStr("")
    /\ call.params.is_new_task = Omitted
    /\ Len(sent) = 1

----------------------------------------------------------------------------
(* C6 *)

\* C6, as claimed: startNewTask(task) sends args [task]; whenever an images
\* sequence is provided it sends args [task, images]; args never has more
\* than two elements.
C6_AsClaimed ==
    call.method = "start_new_task" =>
        /\ OnePost(JCommandArgs("startNewTask",
               IF call.params.images = Omitted
               THEN JArray(<<JString(call.params.task.v)>>)
               ELSE JArray(<<JString(call.params.task.v), dumps(call.params.images)>>)))
        /\ Len(sent[1].body.v.args.v) <= 2

\* C6, amended: startNewTask(task) sends args [task] for every task, also
\* when an empty images sequence is provided; whenever a non-empty images
\* sequence is provided it sends args [task, images], the sequence as one
\* nested element; args never has more than two elements.
C6_StartNewTask ==
    call.method = "start_new_task" =>
        /\ OnePost(JCommandArgs("startNewTask",
               IF call.params.images = Omitted \/ call.params.images = PyList(<<>>)
               THEN JArray(<<JString(call.params.task.v)>>)
               ELSE JArray(<<JString(call.params.task.v), dumps(call.params.images)>>)))
        /\ Len(sent[1].body.v.args.v) <= 2

\* startNewTask("t", ["img1", "img2"]) has issued its request
C6_Witness ==
    /\ call.method = "start_new_task"
    /\ call.params.images = PyList(<<PyStr("img1"), PyStr("img2")>>)
    /\ Len(sent) = 1
    /\ Len(sent[1].body.v.args.v) = 2

----------------------------------------------------------------------------
(* C7 *)

\* C7: when the POST is answered 2xx with a JSON body, execute returns
\* exactly the value the server sent, whatever its shape; the failure
\* object is synthesized only when the request failed.
C7_Passthrough ==
    Done /\ IsPost =>
        /\ Status2xx(reply) /\ reply.body # Malformed =>
               /\ outcome = "returned"
               /\ dumps(result) = reply.body
               /\ caught = NoExc
        /\ caught # NoExc =>
               \/ reply.kind = "raise"
               \/ StatusNon2xx(reply)
               \/ reply.body = Malformed

\* the server's own {success: false, error: "busy"} came back unchanged
C7_Witness ==
    /\ Done /\ IsPost
    /\ reply = Response(200, JObject([success |-> JBool(FALSE), error |-> JString("busy")]))
    /\ result = PyDict([success |-> PyBool(FALSE), error |-> PyStr("busy")])
    /\ caught = NoExc

----------------------------------------------------------------------------
(* C8 *)

\* C8: a 2xx answer whose body is not JSON is never raised to the caller:
\* execute returns the failure object and listCommands the empty sequence.
C8_MalformedJson ==
    Done /\ Status2xx(reply) /\ reply.body = Malformed =>
        /\ outcome = "returned"
        /\ IsPost => IsFailureObject(result)
        /\ IsGet => result = PyList(<<>>)

----------------------------------------------------------------------------
(* C9 *)

\* C9: every call issues exactly one HTTP request and then returns; a
\* failed attempt is not retried and ends the call with its fallback value.
C9_OneRequestThenReturn ==
    /\ call.method # "none" => Len(sent) = 1
    /\ Done =>
        /\ outcome = "returned"
        /\ try_block(reply).exc # NoExc =>
               /\ IsPost => IsFailureObject(result)
               /\ IsGet => result = PyList(<<>>)

----------------------------------------------------------------------------
(* C10 *)

\* C10: in every state the base URL is the one given at construction
\* (http://localhost:3000 by default), every POST went to exactly the base
\* URL and every listCommands GET to the base URL followed by /commands.
C10_BaseUrl ==
    /\ base_url = IF ctor_arg = Omitted THEN "http://localhost:3000" ELSE ctor_arg.v
    /\ \A i \in 1..Len(sent) :
        /\ IsPost => sent[i].verb = "POST" /\ sent[i].url = base_url
        /\ IsGet => sent[i].verb = "GET" /\ sent[i].url = base_url \o "/commands"

\* a call on a client built with its own base URL has failed
C10_Witness ==
    /\ Done
    /\ ctor_arg # Omitted
    /\ caught # NoExc
    /\ Len(sent) = 1

====
